---- MODULE Spec2Model ----
(***************************************************************************)
(* Model of ibind/base/rest_client.py: the Result value type, RestClient   *)
(* construction, the convenience entry points get/post/delete, the generic *)
(* dispatcher request with its bounded retry-on-read-timeout loop, and     *)
(* _process_response.                                                      *)
(*                                                                         *)
(* Python strings that the code inspects (url, endpoint) are sequences of  *)
(* one-character strings.  Python values are tagged records [t |-> ...].   *)
(***************************************************************************)
EXTENDS Integers, Sequences, FiniteSets, TLC

VARIABLES
    client,          \* the RestClient instance's attributes, or NoClient
    ctorArgs,        \* the arguments RestClient.__init__ was called with
    ctorError,       \* exception raised by RestClient.__init__, or NoError
    pc,              \* position of the caller: "idle", "loop", "returned", "raised", "logger_returned"
    call,            \* arguments of the current call to request
    url,             \* local `url` of request
    kwargs,          \* local `kwargs` of request, after filter_none
    attempt,         \* local `attempt` of request: the parameter, then the loop variable
    iter,            \* next value of the iterator over range(self._max_retries + 1)
    transportCalls,  \* requests.request calls made by the current call, in order
    outcomes,        \* what each of those transport calls did
    ret,             \* value returned by the current call
    error,           \* exception raised by the current call
    logLines,        \* log records emitted by the current call
    loggersMade,     \* number of times make_logger has run on the client
    threads,         \* concurrent callers of one client: each one's position and locals
    heap,            \* Result model: container id -> contents of a dict
    results,         \* Result model: the Result objects, in creation order
    copyOp           \* Result model: the last Result.copy call and its outcome

vars == <<client, ctorArgs, ctorError, pc, call, url, kwargs, attempt, iter, transportCalls,
          outcomes, ret, error, logLines, loggersMade, threads, heap, results, copyOp>>

clientVars == <<client, ctorArgs, ctorError>>
configVars == <<ctorArgs, ctorError>>
callVars == <<pc, call, url, kwargs, attempt, iter, transportCalls, outcomes, ret, error, logLines>>
resultVars == <<heap, results, copyOp>>

----------------------------------------------------------------------------
(* Bounds *)

MaxRetries == 2
MaxUrlLen == 1

----------------------------------------------------------------------------
(* Python values *)

PyNone == [t |-> "None"]
PyFalse == [t |-> "bool", v |-> FALSE]
PyTrue == [t |-> "bool", v |-> TRUE]
PyEmpty == [t |-> "str", v |-> <<>>]
PyOne == [t |-> "int", v |-> 1]

PyStr(s) == [t |-> "str", v |-> s]
PyDict(d) == [t |-> "dict", d |-> d]

EmptyMap == [k \in {} |-> PyNone]

\* {k: v, **m}
MapWith(k, v, m) == [x \in {k} \cup DOMAIN m |-> IF x = k /\ k \notin DOMAIN m THEN v ELSE m[x]]

\* the strings over `chars` of length at most n
RECURSIVE StringsUpTo(_, _)
StringsUpTo(chars, n) ==
    IF n = 0 THEN {<<>>}
    ELSE LET shorter == StringsUpTo(chars, n - 1)
         IN shorter \cup {Append(s, c) : s \in shorter, c \in chars}

\* str.endswith for a one-character suffix
EndsWith(s, c) == Len(s) > 0 /\ s[Len(s)] = c

----------------------------------------------------------------------------
(* Exceptions.  An exception is a record with a `type`; IsInstance is the  *)
(* class hierarchy the except clauses test against.                        *)

NoError == [type |-> "none"]

Bases(type) ==
    CASE type = "ReadTimeout" -> {"ReadTimeout", "Timeout", "RequestException", "Exception"}
      [] type = "ConnectTimeout" -> {"ConnectTimeout", "Timeout", "ConnectionError", "RequestException", "Exception"}
      [] type = "ConnectionError" -> {"ConnectionError", "RequestException", "Exception"}
      [] type = "HTTPError" -> {"HTTPError", "RequestException", "Exception"}
      [] type = "JSONDecodeError" -> {"JSONDecodeError", "ValueError", "Exception"}
      [] type = "AttributeError" -> {"AttributeError", "Exception"}
      [] type = "TypeError" -> {"TypeError", "Exception"}
      [] type = "ValueError" -> {"ValueError", "Exception"}
      [] type = "TimeoutError" -> {"TimeoutError", "OSError", "Exception"}
      [] type = "ExternalBrokerError" -> {"ExternalBrokerError", "Exception"}
      [] OTHER -> {}

IsInstance(exc, cls) == cls \in Bases(exc.type)

----------------------------------------------------------------------------
(* RestClient construction *)

DefaultTimeout == 10

Chars == {"x", "/"}

\* values passed as `url`: None or a string
UrlInputs == {PyNone} \cup {PyStr(s) : s \in StringsUpTo(Chars, MaxUrlLen)}

\* the files that exist when the client is constructed
ExistingPaths == {<<"c">>}

\* values passed as `cacert`: False, True, an existing and a missing path
CacertInputs == {PyFalse, PyTrue, PyStr(<<"c">>), PyStr(<<"m">>)}

TimeoutInputs == {DefaultTimeout, 5}

MaxRetriesInputs == -1 .. MaxRetries

NoClient == [state |-> "none"]
NoArgs == [called |-> FALSE]

\* self.base_url = url; if not url.endswith('/'): self.base_url += '/'
NormalizeUrl_AlwaysAppend(u) == Append(u, "/")
NormalizeUrl(u) == IF EndsWith(u, "/") THEN u ELSE Append(u, "/")

\* Path(cacert).exists(): a TypeError for a value that is not path-like
PathExists(p) ==
    IF p.t = "str" THEN [raised |-> FALSE, value |-> p.v \in ExistingPaths]
    ELSE [raised |-> TRUE, value |-> FALSE]

\* self.cacert is False or Path(self.cacert).exists()
CacertValid_Unchecked(c) == [raised |-> FALSE, value |-> TRUE]
CacertValid(c) ==
    IF c = PyFalse THEN [raised |-> FALSE, value |-> TRUE] ELSE PathExists(c)

\* the instance has no attribute _logger
Unset == [name |-> "unset"]

\* the sink new_daily_rotating_file_handler returns
make_logger(self) == [self EXCEPT !._logger = [name |-> "RestClient"]]

\* RestClient.__init__: the exception it raises (NoError when it returns)
InitError(u, c, timeout, max_retries) ==
    IF u = PyNone THEN [type |-> "ValueError", msg |-> "url must not be None"]
    ELSE IF CacertValid(c).raised THEN [type |-> "TypeError", msg |-> "not path-like"]
    ELSE IF ~CacertValid(c).value
        THEN [type |-> "ValueError", msg |-> "cacert must be a valid Path or False"]
    ELSE NoError

\* RestClient.__init__: the instance it leaves when it returns
InitClient(u, c, timeout, max_retries) ==
    make_logger([state |-> "constructed",
                 base_url |-> NormalizeUrl(u.v),
                 cacert |-> c,
                 _timeout |-> timeout,
                 _max_retries |-> max_retries,
                 _logger |-> Unset])

Construct(u, c, timeout, max_retries) ==
    /\ client = NoClient
    /\ ctorArgs = NoArgs
    /\ ctorArgs' = [called |-> TRUE, url |-> u, cacert |-> c, timeout |-> timeout,
                    max_retries |-> max_retries]
    /\ LET e == InitError(u, c, timeout, max_retries)
       IN  /\ ctorError' = e
           /\ client' = IF e = NoError THEN InitClient(u, c, timeout, max_retries) ELSE NoClient
           /\ loggersMade' = IF e = NoError THEN loggersMade + 1 ELSE loggersMade
    /\ UNCHANGED <<callVars, threads, resultVars>>

----------------------------------------------------------------------------
(* Result and response processing *)

\* Result(data=None, request={}) as a value
Result(data, request) == [t |-> "Result", data |-> data, request |-> request]

\* response.json(): the body parsed as structured data, or a parse failure
Json(text) ==
    CASE text = "{\"status\":\"ok\"}" ->
            [ok |-> TRUE, value |-> PyDict([status |-> PyStr(<<"o", "k">>)])]
      [] text = "[]" -> [ok |-> TRUE, value |-> [t |-> "list", v |-> <<>>]]
      [] text = "null" -> [ok |-> TRUE, value |-> PyNone]
      [] OTHER -> [ok |-> FALSE, value |-> PyNone]

\* response.raise_for_status() raises HTTPError for a 4xx or 5xx status
IsErrorStatus_Never(status_code) == FALSE
IsErrorStatus(status_code) == 400 <= status_code /\ status_code < 600

\* except Timeout
IsTimeoutClass_Never(e) == FALSE
IsTimeoutClass(e) == IsInstance(e, "Timeout")

\* the try block of _process_response: what it raises, NoError when it returns
ProcessFailure_ParseIgnored(response) ==
    IF IsErrorStatus(response.status_code) THEN [type |-> "HTTPError"]
    ELSE IF response.readFault # "none" THEN [type |-> response.readFault]
    ELSE NoError
ProcessFailure(response) ==
    IF IsErrorStatus(response.status_code) THEN [type |-> "HTTPError"]
    ELSE IF response.readFault # "none" THEN [type |-> response.readFault]
    ELSE IF ~Json(response.text).ok THEN [type |-> "JSONDecodeError"]
    ELSE NoError

\* RestClient._process_response: [raised, exc] or [raised, value]
ProcessResponse_DataUnset(self, response, result) ==
    [raised |-> FALSE, exc |-> NoError, value |-> result]
ProcessResponse(self, response, result) ==
    LET e == ProcessFailure(response)
    IN  IF e = NoError
            THEN [raised |-> FALSE, exc |-> NoError,
                  value |-> [result EXCEPT !.data = Json(response.text).value]]
        ELSE IF IsTimeoutClass(e)
            THEN [raised |-> TRUE, value |-> PyNone,
                  exc |-> [type |-> "ExternalBrokerError", msg |-> "Timeout error",
                           timeout |-> self._timeout,
                           status_code |-> response.status_code, cause |-> e]]
        ELSE [raised |-> TRUE, value |-> PyNone,
              exc |-> [type |-> "ExternalBrokerError", msg |-> "IbkrClient response error",
                       result |-> result, text |-> response.text,
                       status_code |-> response.status_code, cause |-> e]]

----------------------------------------------------------------------------
(* The dispatcher: get, post, delete, request *)

NoValue == [t |-> "unset"]
NoCall == [method |-> "none"]

Endpoints == {<<"o">>, <<"/", "o">>}

\* values passed as `params` to get, post and delete
ParamsInputs ==
    {PyNone,
     PyDict(EmptyMap),
     PyDict([a |-> PyOne, b |-> PyNone]),
     PyDict([a |-> PyFalse, b |-> PyEmpty]),
     PyDict([a |-> PyNone, b |-> PyNone])}

\* keyword arguments passed to request directly
KwargsInputs ==
    {EmptyMap,
     [params |-> PyDict([a |-> PyOne]), json |-> PyNone, stream |-> PyFalse]}

\* values passed as `attempt` to request directly
AttemptInputs == {0, 1}

\* support.py_utils.filter_none: drops the entries whose value is None, in
\* a dict and in the dicts nested in it
RECURSIVE filter_none(_)
filter_none(x) ==
    IF x.t = "dict"
        THEN PyDict([k \in {j \in DOMAIN x.d : x.d[j] # PyNone} |-> filter_none(x.d[k])])
    ELSE x

\* kwargs = filter_none(kwargs)
StrippedKwargs_Unfiltered(kw) == kw
StrippedKwargs(kw) == filter_none(PyDict(kw)).d

\* url = f"{self.base_url}{endpoint}"
RequestUrl_EndpointOnly(self, endpoint) == endpoint
RequestUrl(self, endpoint) == self.base_url \o endpoint

\* the logger property: self._logger, after make_logger when the attribute
\* is missing; `self` is the instance afterwards, `made` the make_logger runs
LoggerAccess_AlwaysMake(self) ==
    [self |-> make_logger(self), made |-> 1, sink |-> make_logger(self)._logger]
LoggerAccess(self) ==
    IF self._logger = Unset
        THEN [self |-> make_logger(self), made |-> 1, sink |-> make_logger(self)._logger]
    ELSE [self |-> self, made |-> 0, sink |-> self._logger]

logger(self) == LoggerAccess(self).sink

\* the effect on the instance of evaluating self.logger, when `does`
UsesLogger(does) ==
    /\ client' = IF does THEN LoggerAccess(client).self ELSE client
    /\ loggersMade' = IF does THEN loggersMade + LoggerAccess(client).made ELSE loggersMade
    /\ UNCHANGED configVars

\* for attempt in range(...): the first value of the loop variable
FirstAttempt_FromArgument(attemptArg) == attemptArg
FirstAttempt(attemptArg) == 0

\* except ReadTimeout
IsRetried_AnyFailure(exc) == ~IsInstance(exc, "ExternalBrokerError")
IsRetried_Never(exc) == FALSE
IsRetried(exc) == IsInstance(exc, "ReadTimeout")

\* if attempt >= self._max_retries
RetriesExhausted_OneEarly(self, i) == i + 1 >= self._max_retries
RetriesExhausted(self, i) == i >= self._max_retries

\* what requests.request may do: raise, or return a response
TransportErrors == {"ReadTimeout", "ConnectTimeout", "ConnectionError"}
StatusCodes == {200, 404}
Texts == {"{\"status\":\"ok\"}", "[]", "null", "not found"}
Responses == [status_code : StatusCodes, text : Texts, readFault : {"none", "ReadTimeout"}]
TransportOutcomes ==
    {[kind |-> "raise", exc |-> [type |-> t]] : t \in TransportErrors}
    \cup {[kind |-> "response", response |-> r] : r \in Responses}

\* request, lines 151-157: url, filter_none, the request log line; then the
\* loop is entered
Request(method, endpoint, attemptArg, log, kw) ==
    /\ client # NoClient
    /\ pc = "idle"
    /\ call' = [method |-> method, endpoint |-> endpoint, attempt |-> attemptArg,
                log |-> log, kwargs |-> kw]
    /\ url' = RequestUrl(client, endpoint)
    /\ kwargs' = StrippedKwargs(kw)
    /\ logLines' = IF log
                     THEN <<[sink |-> logger(client), level |-> "info", method |-> method,
                             url |-> url', kwargs |-> kwargs',
                             attemptShown |-> attemptArg > 0, attempt |-> attemptArg]>>
                   ELSE <<>>
    /\ attempt' = attemptArg
    /\ iter' = FirstAttempt(attemptArg)
    /\ transportCalls' = <<>>
    /\ outcomes' = <<>>
    /\ ret' = NoValue
    /\ error' = NoError
    /\ pc' = "loop"
    /\ UsesLogger(log)
    /\ UNCHANGED <<threads, resultVars>>

Get(path, params, log) == Request("GET", path, 0, log, [params |-> params])

Post(path, params, log) == Request("POST", path, 0, log, [json |-> params])

Delete(path, params, log) == Request("DELETE", path, 0, log, [json |-> params])

\* requests.request(method, url, verify=self.cacert, timeout=self._timeout, **kwargs)
TransportCall_DefaultTimeout(self, method, u, kw) ==
    [method |-> method, url |-> u, verify |-> self.cacert, timeout |-> DefaultTimeout,
     kwargs |-> kw]
TransportCall(self, method, u, kw) ==
    [method |-> method, url |-> u, verify |-> self.cacert, timeout |-> self._timeout,
     kwargs |-> kw]

\* the try block of one iteration of a call with locals url = u and
\* kwargs = kw, after requests.request did `o`
TryBodyOf(self, u, kw, o) ==
    IF o.kind = "raise" THEN [raised |-> TRUE, exc |-> o.exc, value |-> PyNone]
    ELSE ProcessResponse(self, o.response, Result(PyNone, MapWith("url", PyStr(u), kw)))

TryBody(o) == TryBodyOf(client, url, kwargs, o)

\* one iteration of `for attempt in range(self._max_retries + 1)`
Attempt(o) ==
    /\ pc = "loop"
    /\ iter < client._max_retries + 1
    /\ attempt' = iter
    /\ iter' = iter + 1
    /\ transportCalls' = Append(transportCalls, TransportCall(client, call.method, url, kwargs))
    /\ outcomes' = Append(outcomes, o)
    /\ LET body == TryBody(o)
       IN  IF ~body.raised
               THEN /\ pc' = "returned"
                    /\ ret' = body.value
                    /\ UNCHANGED <<error, logLines>>
           ELSE IF IsRetried(body.exc)
               THEN IF RetriesExhausted(client, attempt')
                        THEN /\ pc' = "raised"
                             /\ error' = [type |-> "TimeoutError", msg |-> "Reached max retries",
                                          max_retries |-> client._max_retries,
                                          method |-> call.method, url |-> url,
                                          kwargs |-> kwargs, cause |-> body.exc]
                             /\ UNCHANGED <<ret, logLines>>
                    ELSE /\ pc' = "loop"
                         /\ logLines' = Append(logLines,
                                [sink |-> [name |-> "_LOGGER"], level |-> "info",
                                 method |-> call.method, url |-> url,
                                 attempt |-> attempt' + 1,
                                 max_retries |-> client._max_retries])
                         /\ UNCHANGED <<ret, error>>
           ELSE /\ pc' = "raised"
                /\ error' = body.exc
                /\ logLines' = IF call.log
                                 THEN Append(logLines, [sink |-> logger(client),
                                                        level |-> "exception",
                                                        exc |-> body.exc])
                               ELSE logLines
                /\ UNCHANGED ret
    /\ UsesLogger(call.log /\ TryBody(o).raised /\ ~IsRetried(TryBody(o).exc))
    /\ UNCHANGED <<call, url, kwargs, threads, resultVars>>

\* the range is exhausted: the function ends without a return statement
LoopExhausted ==
    /\ pc = "loop"
    /\ ~(iter < client._max_retries + 1)
    /\ pc' = "returned"
    /\ ret' = PyNone
    /\ UNCHANGED <<call, url, kwargs, attempt, iter, transportCalls, outcomes, error,
                   logLines, clientVars, loggersMade, threads, resultVars>>

\* the call is over: the caller has its Result or its exception and the
\* frame of request is gone
Resume ==
    /\ pc \in {"returned", "raised", "logger_returned"}
    /\ pc' = "idle"
    /\ call' = NoCall
    /\ url' = <<>>
    /\ kwargs' = EmptyMap
    /\ attempt' = 0
    /\ iter' = 0
    /\ transportCalls' = <<>>
    /\ outcomes' = <<>>
    /\ ret' = NoValue
    /\ error' = NoError
    /\ logLines' = <<>>
    /\ UNCHANGED <<clientVars, loggersMade, threads, resultVars>>

\* a caller evaluates client.logger
ReadLogger ==
    /\ client # NoClient
    /\ pc = "idle"
    /\ pc' = "logger_returned"
    /\ ret' = logger(client)
    /\ UsesLogger(TRUE)
    /\ UNCHANGED <<call, url, kwargs, attempt, iter, transportCalls, outcomes, error,
                   logLines, threads, resultVars>>

----------------------------------------------------------------------------
(* The client and its callers *)

NoCopy == [done |-> FALSE]

\* the callers that may run on one client at a time, and a caller at rest
NumThreads == 2

Threads == 1 .. NumThreads

IdleThread ==
    [pc |-> "idle", op |-> "none", method |-> "none", log |-> FALSE, url |-> <<>>,
     kwargs |-> EmptyMap, attempt |-> 0, iter |-> 0, calls |-> <<>>, lines |-> 0,
     got |-> Unset, ret |-> NoValue, error |-> NoError]

Init ==
    /\ client = NoClient
    /\ ctorArgs = NoArgs
    /\ ctorError = NoError
    /\ pc = "idle"
    /\ call = NoCall
    /\ url = <<>>
    /\ kwargs = EmptyMap
    /\ attempt = 0
    /\ iter = 0
    /\ transportCalls = <<>>
    /\ outcomes = <<>>
    /\ ret = NoValue
    /\ error = NoError
    /\ logLines = <<>>
    /\ loggersMade = 0
    /\ threads = [t \in Threads |-> IdleThread]
    /\ heap = <<>>
    /\ results = <<>>
    /\ copyOp = NoCopy

DoConstruct ==
    \E u \in UrlInputs, c \in CacertInputs, t \in TimeoutInputs, m \in MaxRetriesInputs :
        Construct(u, c, t, m)

DoGet == \E path \in Endpoints, params \in ParamsInputs, log \in BOOLEAN : Get(path, params, log)

DoPost == \E path \in Endpoints, params \in ParamsInputs, log \in BOOLEAN : Post(path, params, log)

DoDelete ==
    \E path \in Endpoints, params \in ParamsInputs, log \in BOOLEAN : Delete(path, params, log)

DoRequest ==
    \E endpoint \in Endpoints, a \in AttemptInputs, log \in BOOLEAN, kw \in KwargsInputs :
        Request("GET", endpoint, a, log, kw)

DoAttempt == \E o \in TransportOutcomes : Attempt(o)

Next ==
    \/ DoConstruct
    \/ DoGet
    \/ DoPost
    \/ DoDelete
    \/ DoRequest
    \/ DoAttempt
    \/ LoopExhausted
    \/ Resume
    \/ ReadLogger

Spec == Init /\ [][Next]_vars

\* an instance on which make_logger has not run: the case the
\* `except AttributeError` branch of the logger property is written for
WithoutLogger(self) == [self EXCEPT !._logger = Unset]

LazyArgs ==
    [called |-> TRUE, url |-> PyStr(<<"x">>), cacert |-> PyFalse, timeout |-> DefaultTimeout,
     max_retries |-> 1]

\* no client yet, or a client whose sink has not been created
InitLazy ==
    /\ \/ client = NoClient /\ ctorArgs = NoArgs
       \/ /\ client = WithoutLogger(InitClient(LazyArgs.url, LazyArgs.cacert, LazyArgs.timeout,
                                               LazyArgs.max_retries))
          /\ ctorArgs = LazyArgs
    /\ ctorError = NoError
    /\ pc = "idle"
    /\ call = NoCall
    /\ url = <<>>
    /\ kwargs = EmptyMap
    /\ attempt = 0
    /\ iter = 0
    /\ transportCalls = <<>>
    /\ outcomes = <<>>
    /\ ret = NoValue
    /\ error = NoError
    /\ logLines = <<>>
    /\ loggersMade = 0
    /\ threads = [t \in Threads |-> IdleThread]
    /\ heap = <<>>
    /\ results = <<>>
    /\ copyOp = NoCopy

SpecLazy == InitLazy /\ [][Next]_vars

----------------------------------------------------------------------------
(* Concurrent callers of one client.  Each thread runs logger or get on the *)
(* shared instance; a step is what a thread does between two points where   *)
(* another thread can run: the attribute read of the logger property, the   *)
(* make_logger call of its except branch, its final read, one iteration of  *)
(* the retry loop.                                                          *)

\* what the transport does to the concurrent callers
ConcOutcomes ==
    {[kind |-> "raise", exc |-> [type |-> "ReadTimeout"]],
     [kind |-> "response",
      response |-> [status_code |-> 200, text |-> "{\"status\":\"ok\"}", readFault |-> "none"]],
     [kind |-> "response",
      response |-> [status_code |-> 404, text |-> "not found", readFault |-> "none"]]}

\* the shared client: constructed, or an instance whose sink has not been
\* created; no thread has started
InitConc ==
    /\ \E t \in TimeoutInputs, m \in -1 .. 1, made \in BOOLEAN :
          LET c == InitClient(PyStr(<<"x">>), PyStr(<<"c">>), t, m)
          IN  /\ client = IF made THEN c ELSE WithoutLogger(c)
              /\ loggersMade = IF made THEN 1 ELSE 0
              /\ ctorArgs = [called |-> TRUE, url |-> PyStr(<<"x">>), cacert |-> PyStr(<<"c">>),
                             timeout |-> t, max_retries |-> m]
    /\ threads = [t \in Threads |-> IdleThread]
    /\ ctorError = NoError
    /\ pc = "idle"
    /\ call = NoCall
    /\ url = <<>>
    /\ kwargs = EmptyMap
    /\ attempt = 0
    /\ iter = 0
    /\ transportCalls = <<>>
    /\ outcomes = <<>>
    /\ ret = NoValue
    /\ error = NoError
    /\ logLines = <<>>
    /\ heap = <<>>
    /\ results = <<>>
    /\ copyOp = NoCopy

\* thread t evaluates client.logger
TStartLogger(t) ==
    /\ threads[t].pc = "idle"
    /\ threads' = [threads EXCEPT ![t] = [IdleThread EXCEPT !.pc = "try", !.op = "logger"]]
    /\ UNCHANGED <<clientVars, loggersMade, callVars, resultVars>>

\* thread t calls request(method, path, log=log, **kw): request up to the
\* log line, whose evaluation of self.logger comes next when log is set
TRequest(t, method, path, log, kw) ==
    /\ threads[t].pc = "idle"
    /\ threads' = [threads EXCEPT ![t] =
            [IdleThread EXCEPT !.op = "request", !.method = method, !.log = log,
                               !.url = RequestUrl(client, path),
                               !.kwargs = StrippedKwargs(kw),
                               !.iter = FirstAttempt(0),
                               !.pc = IF log THEN "try" ELSE "loop"]]
    /\ UNCHANGED <<clientVars, loggersMade, callVars, resultVars>>

\* get, post and delete of thread t, without parameters
TGet(t, path, log) == TRequest(t, "GET", path, log, [params |-> PyNone])

TPost(t, path, log) == TRequest(t, "POST", path, log, [json |-> PyNone])

TDelete(t, path, log) == TRequest(t, "DELETE", path, log, [json |-> PyNone])

\* the thread has the sink: logger returns it; request writes its log line
\* and enters the loop
Obtained(th, sink) ==
    IF th.op = "logger" THEN [th EXCEPT !.pc = "logger_returned", !.got = sink, !.ret = sink]
    ELSE [th EXCEPT !.pc = "loop", !.got = sink, !.lines = @ + 1]

\* try: return self._logger
TTry(t) ==
    /\ threads[t].pc = "try"
    /\ threads' = [threads EXCEPT ![t] =
            IF client._logger # Unset THEN Obtained(@, client._logger)
            ELSE [@ EXCEPT !.pc = "except"]]
    /\ UNCHANGED <<clientVars, loggersMade, callVars, resultVars>>

\* except AttributeError: self.make_logger()
TMake(t) ==
    /\ threads[t].pc = "except"
    /\ client' = make_logger(client)
    /\ loggersMade' = loggersMade + 1
    /\ threads' = [threads EXCEPT ![t].pc = "made"]
    /\ UNCHANGED <<configVars, callVars, resultVars>>

\* return self._logger, after make_logger
TReturn(t) ==
    /\ threads[t].pc = "made"
    /\ threads' = [threads EXCEPT ![t] = Obtained(@, client._logger)]
    /\ UNCHANGED <<clientVars, loggersMade, callVars, resultVars>>

\* one iteration of the retry loop of thread t
TAttempt(t, o) ==
    LET th == threads[t]
        i == th.iter
        body == TryBodyOf(client, th.url, th.kwargs, o)
        made == [th EXCEPT !.attempt = i, !.iter = i + 1,
                           !.calls = Append(@, TransportCall(client, th.method, th.url, th.kwargs))]
        logs == th.log /\ body.raised /\ ~IsRetried(body.exc)
    IN  /\ th.pc = "loop"
        /\ i < client._max_retries + 1
        /\ threads' = [threads EXCEPT ![t] =
                IF ~body.raised THEN [made EXCEPT !.pc = "returned", !.ret = body.value]
                ELSE IF IsRetried(body.exc)
                    THEN IF RetriesExhausted(client, i)
                             THEN [made EXCEPT !.pc = "raised",
                                               !.error = [type |-> "TimeoutError",
                                                          msg |-> "Reached max retries",
                                                          max_retries |-> client._max_retries,
                                                          method |-> th.method, url |-> th.url,
                                                          kwargs |-> th.kwargs,
                                                          cause |-> body.exc]]
                         ELSE made
                ELSE [made EXCEPT !.pc = "raised", !.error = body.exc,
                                  !.lines = IF th.log THEN @ + 1 ELSE @]]
        /\ client' = IF logs THEN LoggerAccess(client).self ELSE client
        /\ loggersMade' = IF logs THEN loggersMade + LoggerAccess(client).made ELSE loggersMade
        /\ UNCHANGED <<configVars, callVars, resultVars>>

\* the range of thread t is exhausted
TLoopExhausted(t) ==
    /\ threads[t].pc = "loop"
    /\ ~(threads[t].iter < client._max_retries + 1)
    /\ threads' = [threads EXCEPT ![t].pc = "returned", ![t].ret = PyNone]
    /\ UNCHANGED <<clientVars, loggersMade, callVars, resultVars>>

\* the operation of thread t is over
TResume(t) ==
    /\ threads[t].pc \in {"returned", "raised", "logger_returned"}
    /\ threads' = [threads EXCEPT ![t] = IdleThread]
    /\ UNCHANGED <<clientVars, loggersMade, callVars, resultVars>>

DoTStartLogger == \E t \in Threads : TStartLogger(t)

DoTGet == \E t \in Threads, log \in BOOLEAN : TGet(t, <<"o">>, log)

\* post and delete with the default log=True
DoTPost == \E t \in Threads : TPost(t, <<"o">>, TRUE)

DoTDelete == \E t \in Threads : TDelete(t, <<"o">>, TRUE)

DoTTry == \E t \in Threads : TTry(t)

DoTMake == \E t \in Threads : TMake(t)

DoTReturn == \E t \in Threads : TReturn(t)

DoTAttempt == \E t \in Threads, o \in ConcOutcomes : TAttempt(t, o)

DoTLoopExhausted == \E t \in Threads : TLoopExhausted(t)

DoTResume == \E t \in Threads : TResume(t)

NextConc ==
    \/ DoTStartLogger
    \/ DoTGet
    \/ DoTPost
    \/ DoTDelete
    \/ DoTTry
    \/ DoTMake
    \/ DoTReturn
    \/ DoTAttempt
    \/ DoTLoopExhausted
    \/ DoTResume

SpecConc == InitConc /\ [][NextConc]_vars

----------------------------------------------------------------------------
(* The Result objects and their containers.  A container is a dict, held   *)
(* in `heap` under its id; a cell of a dict is a value or a reference to   *)
(* another container.  A Result object holds two references; None is the   *)
(* reference NoneRef.                                                      *)

MaxResults == 2

NoneRef == 0
UNDEFINED == [t |-> "UNDEFINED"]

Ref(id) == [t |-> "ref", v |-> id]
PyTwo == [t |-> "int", v |-> 2]

\* the containers a caller builds a Result from: data, then request
ResultShapes ==
    {[data |-> <<>>, request |-> <<EmptyMap>>],
     [data |-> <<>>, request |-> <<[url |-> PyStr(<<"u">>)]>>],
     [data |-> <<[a |-> PyOne]>>, request |-> <<[url |-> PyStr(<<"u">>)]>>],
     [data |-> <<[a |-> PyOne], [b |-> PyOne]>>, request |-> <<[url |-> PyStr(<<"u">>)]>>]}

\* the value a reference stands for, nested dicts included
RECURSIVE DeepValue(_, _)
DeepValue(h, ref) ==
    IF ref = NoneRef THEN PyNone
    ELSE PyDict([k \in DOMAIN h[ref] |->
                    IF h[ref][k].t = "ref" THEN DeepValue(h, h[ref][k].v) ELSE h[ref][k]])

\* the containers reachable from a reference
RECURSIVE Reachable(_, _)
Reachable(h, ref) ==
    IF ref = NoneRef THEN {}
    ELSE {ref} \cup UNION {Reachable(h, h[ref][k].v) : k \in {j \in DOMAIN h[ref] : h[ref][j].t = "ref"}}

\* Result(data=..., request=...) built by a caller: with two data containers
\* the first one holds the second under key "n"
NewResult(shape) ==
    /\ results = <<>>
    /\ LET n == Len(heap)
           nd == Len(shape.data)
           dataCells == IF nd = 2
                          THEN <<MapWith("n", Ref(n + 2), shape.data[1]), shape.data[2]>>
                        ELSE shape.data
       IN  /\ heap' = heap \o dataCells \o shape.request
           /\ results' = <<[data |-> IF nd = 0 THEN NoneRef ELSE n + 1,
                            request |-> n + nd + 1]>>
    /\ copyOp' = NoCopy
    /\ UNCHANGED <<clientVars, callVars, loggersMade, threads>>

\* dict.copy(): a new container with the same cells
DictCopy(h, ref) == [heap |-> Append(h, h[ref]), ref |-> Len(h) + 1]

\* Result.copy(data, request) on results[i]; an argument is UNDEFINED or a
\* reference; self.data.copy() on None raises AttributeError
Copy(i, dataArg, requestArg) ==
    LET self == results[i]
        dataFails == dataArg = UNDEFINED /\ self.data = NoneRef
        requestFails == requestArg = UNDEFINED /\ self.request = NoneRef
        d == IF dataArg = UNDEFINED THEN DictCopy(heap, self.data)
             ELSE [heap |-> heap, ref |-> dataArg.v]
        r == IF requestArg = UNDEFINED THEN DictCopy(d.heap, self.request)
             ELSE [heap |-> d.heap, ref |-> requestArg.v]
        op == [done |-> TRUE, src |-> i, data |-> dataArg, request |-> requestArg,
               mutated |-> FALSE,
               snapshot |-> [data |-> DeepValue(heap, self.data),
                             request |-> DeepValue(heap, self.request)]]
    IN  /\ Len(results) < MaxResults
        /\ IF dataFails \/ requestFails
               THEN /\ copyOp' = op @@ [raised |-> TRUE, exc |-> [type |-> "AttributeError"],
                                        dst |-> 0]
                    /\ UNCHANGED <<heap, results>>
           ELSE /\ heap' = r.heap
                /\ results' = Append(results, [data |-> d.ref, request |-> r.ref])
                /\ copyOp' = op @@ [raised |-> FALSE, exc |-> NoError,
                                    dst |-> Len(results) + 1]
        /\ UNCHANGED <<clientVars, callVars, loggersMade, threads>>

\* pass_result(data, old_result)
PassResult(dataArg, i) == Copy(i, dataArg, UNDEFINED)

\* the holder of the last copy stores value v under key k in a container it
\* reaches through the copy's data or request
Mutate(c, k, v) ==
    /\ copyOp.done
    /\ ~copyOp.raised
    /\ c \in Reachable(heap, results[copyOp.dst].data)
             \cup Reachable(heap, results[copyOp.dst].request)
    /\ heap' = [heap EXCEPT ![c] = [x \in {k} \cup DOMAIN @ |-> IF x = k THEN v ELSE @[x]]]
    /\ copyOp' = [copyOp EXCEPT !.mutated = TRUE]
    /\ UNCHANGED <<results, clientVars, callVars, loggersMade, threads>>

\* arguments of copy: UNDEFINED, None, or a container that exists
CopyArgs == {UNDEFINED, Ref(NoneRef)} \cup {Ref(c) : c \in 1 .. Len(heap)}

DoNewResult == \E shape \in ResultShapes : NewResult(shape)

DoCopy == \E i \in 1 .. Len(results), d \in CopyArgs, r \in {UNDEFINED, Ref(NoneRef)} : Copy(i, d, r)

DoPassResult == \E i \in 1 .. Len(results), d \in CopyArgs \ {UNDEFINED} : PassResult(d, i)

DoMutate == \E c \in 1 .. Len(heap), k \in {"a", "z"} : Mutate(c, k, PyTwo)

NextResult ==
    \/ DoNewResult
    \/ DoCopy
    \/ DoPassResult
    \/ DoMutate

SpecResult == Init /\ [][NextResult]_vars

----------------------------------------------------------------------------
(* Properties of the dispatcher *)

InCall == pc \in {"loop", "returned", "raised"}

ReadTimeoutOutcome == [kind |-> "raise", exc |-> [type |-> "ReadTimeout"]]

\* the first n transport calls of the current call all ended in a read-timeout
TimedOutUpTo(n) == \A i \in 1 .. n : outcomes[i] = ReadTimeoutOutcome

LastOutcome == outcomes[Len(outcomes)]

\* a response with a success status whose body arrives and parses
IsSuccess(o) ==
    /\ o.kind = "response"
    /\ o.response.status_code < 400
    /\ o.response.readFault = "none"
    /\ o.response.text \in {"{\"status\":\"ok\"}", "[]", "null"}

\* C1: with max_retries = N >= 0 and a read-timeout on every attempt, the
\* call makes exactly N + 1 transport calls and then fails with the
\* retries-exhausted TimeoutError: while fewer than N + 1 calls were made it
\* is still in the loop, and it never makes more than N + 1.
C1_RetryBound ==
    (InCall /\ client._max_retries >= 0 /\ TimedOutUpTo(Len(outcomes))) =>
        /\ Len(transportCalls) = Len(outcomes)
        /\ Len(transportCalls) <= client._max_retries + 1
        /\ Len(transportCalls) < client._max_retries + 1 => pc = "loop"
        /\ Len(transportCalls) = client._max_retries + 1 =>
              /\ pc = "raised"
              /\ error.type = "TimeoutError"
              /\ error.max_retries = client._max_retries

C1_Witness ==
    /\ pc = "raised"
    /\ error.type = "TimeoutError"
    /\ client._max_retries >= 1
    /\ Len(transportCalls) = client._max_retries + 1
    /\ TimedOutUpTo(Len(outcomes))

\* C2: when attempts 0..k-1 time out and attempt k returns a success
\* response, the call has returned after k + 1 transport calls with a Result
\* whose data is the parsed body of that response and whose request url is
\* base_url followed by the endpoint.
C2_SuccessShortCircuits ==
    (InCall /\ Len(outcomes) >= 1 /\ TimedOutUpTo(Len(outcomes) - 1) /\ IsSuccess(LastOutcome)) =>
        /\ pc = "returned"
        /\ Len(transportCalls) = Len(outcomes)
        /\ ret.t = "Result"
        /\ ret.data = Json(LastOutcome.response.text).value
        /\ ret.request["url"] = PyStr(client.base_url \o call.endpoint)

C2_Witness ==
    /\ pc = "returned"
    /\ Len(transportCalls) = 2
    /\ client._max_retries >= 2
    /\ TimedOutUpTo(1)
    /\ ret.t = "Result"
    /\ ret.data = PyDict([status |-> PyStr(<<"o", "k">>)])

\* C3: a transport failure that is not a read-timeout ends the call on the
\* attempt it occurs: the call has raised that very exception and made no
\* transport call after it.
C3_OtherFailureNotRetried ==
    (InCall /\ Len(outcomes) >= 1 /\ LastOutcome.kind = "raise"
            /\ LastOutcome.exc.type # "ReadTimeout") =>
        /\ pc = "raised"
        /\ error = LastOutcome.exc
        /\ Len(transportCalls) = Len(outcomes)

C3_Witness ==
    /\ pc = "raised"
    /\ error = [type |-> "ConnectionError"]
    /\ Len(transportCalls) = 1
    /\ client._max_retries >= 1

\* C4: a response with a non-success status makes the call fail with an
\* ExternalBrokerError carrying the status code of that response, and no
\* transport call follows it.
C4_ErrorStatusIsFatal ==
    (InCall /\ Len(outcomes) >= 1 /\ LastOutcome.kind = "response"
            /\ LastOutcome.response.status_code >= 400) =>
        /\ pc = "raised"
        /\ error.type = "ExternalBrokerError"
        /\ error.status_code = LastOutcome.response.status_code
        /\ Len(transportCalls) = Len(outcomes)

C4_Witness ==
    /\ pc = "raised"
    /\ error.type = "ExternalBrokerError"
    /\ error.status_code = 404
    /\ Len(transportCalls) = 1
    /\ client._max_retries >= 1

\* C5: a call on a constructed client that has returned has returned a
\* Result whose data is the parsed body of the response of its last
\* transport call; a call that has raised has raised an exception.
C5_ResultOrError ==
    /\ pc = "returned" =>
          /\ ret.t = "Result"
          /\ Len(outcomes) >= 1
          /\ LastOutcome.kind = "response"
          /\ ret.data = Json(LastOutcome.response.text).value
    /\ pc = "raised" => error # NoError

\* no entry of the mapping, nor of a dict nested in it, is None
RECURSIVE NoNone(_)
NoNone(m) == \A k \in DOMAIN m : m[k] # PyNone /\ (m[k].t = "dict" => NoNone(m[k].d))

\* `stripped` has the entries of `raw` that are not None, and only those,
\* each with its value, in the mapping and in the dicts nested in it
RECURSIVE KeepsRest(_, _)
KeepsRest(raw, stripped) ==
    /\ DOMAIN stripped = {k \in DOMAIN raw : raw[k] # PyNone}
    /\ \A k \in DOMAIN stripped :
          IF raw[k].t = "dict"
              THEN stripped[k].t = "dict" /\ KeepsRest(raw[k].d, stripped[k].d)
          ELSE stripped[k] = raw[k]

\* C6: the arguments of every transport call are the arguments passed to
\* request without the entries whose value is None: no None is left, every
\* other entry (False and the empty string included) is kept, and the
\* Result returned records the url and these same arguments.
C6_AbsentStripped ==
    /\ \A i \in 1 .. Len(transportCalls) :
          /\ NoNone(transportCalls[i].kwargs)
          /\ KeepsRest(call.kwargs, transportCalls[i].kwargs)
    /\ (pc = "returned" /\ ret.t = "Result") =>
          /\ DOMAIN ret.request = {"url"} \cup DOMAIN transportCalls[Len(transportCalls)].kwargs
          /\ \A k \in DOMAIN transportCalls[Len(transportCalls)].kwargs :
                ret.request[k] = transportCalls[Len(transportCalls)].kwargs[k]

C6_Witness ==
    /\ pc = "returned"
    /\ ret.t = "Result"
    /\ call.method = "GET"
    /\ call.kwargs = [params |-> PyDict([a |-> PyOne, b |-> PyNone])]
    /\ transportCalls[1].kwargs = [params |-> PyDict([a |-> PyOne])]
    /\ ret.request["params"] = PyDict([a |-> PyOne])

\* C6, the explicitly false and explicitly empty values: they reach the
\* transport
C6_WitnessFalseEmpty ==
    /\ Len(transportCalls) >= 1
    /\ transportCalls[1].kwargs = [json |-> PyDict([a |-> PyFalse, b |-> PyEmpty])]

\* C8: the base_url of a constructed client ends with '/': it is the url
\* passed when that ends with '/', and the url followed by one '/' when not;
\* the url of every request and transport call is base_url followed by the
\* endpoint.
C8_BaseUrlNormalized ==
    client # NoClient =>
        /\ EndsWith(client.base_url, "/")
        /\ EndsWith(ctorArgs.url.v, "/") => client.base_url = ctorArgs.url.v
        /\ ~EndsWith(ctorArgs.url.v, "/") =>
              /\ Len(client.base_url) = Len(ctorArgs.url.v) + 1
              /\ SubSeq(client.base_url, 1, Len(ctorArgs.url.v)) = ctorArgs.url.v
        /\ InCall => url = client.base_url \o call.endpoint
        /\ \A i \in 1 .. Len(transportCalls) :
              transportCalls[i].url = client.base_url \o call.endpoint

C8_Witness ==
    /\ client # NoClient
    /\ ctorArgs.url = PyStr(<<"x">>)
    /\ client.base_url = <<"x", "/">>
    /\ Len(transportCalls) >= 1
    /\ transportCalls[1].url = <<"x", "/", "o">>

\* C8, the url that already ends with '/': stored unchanged
C8_WitnessUnchanged ==
    /\ client # NoClient
    /\ ctorArgs.url = PyStr(<<"/">>)
    /\ client.base_url = <<"/">>

\* C9: construction raises ValueError and leaves no client when url is None
\* and when cacert is a path that does not exist; it succeeds when url is
\* not None and cacert is False or a path that exists; without a client no
\* call is in progress and no transport call was made.
C9_ConstructionValidated ==
    ctorArgs.called =>
        /\ ctorArgs.url = PyNone =>
              client = NoClient /\ ctorError.type = "ValueError"
        /\ (ctorArgs.url # PyNone /\ ctorArgs.cacert.t = "str"
                /\ ctorArgs.cacert.v \notin ExistingPaths) =>
              client = NoClient /\ ctorError.type = "ValueError"
        /\ (ctorArgs.url # PyNone
                /\ (\/ ctorArgs.cacert = PyFalse
                    \/ ctorArgs.cacert.t = "str" /\ ctorArgs.cacert.v \in ExistingPaths)) =>
              /\ ctorError = NoError
              /\ client # NoClient
              /\ client.cacert = ctorArgs.cacert
        /\ client = NoClient => pc = "idle" /\ transportCalls = <<>>

C9_Witness ==
    /\ ctorArgs.called
    /\ ctorArgs.url # PyNone
    /\ ctorArgs.cacert = PyStr(<<"m">>)
    /\ ctorError.type = "ValueError"
    /\ client = NoClient

\* C9, the accepting side: an existing path is stored and used to verify
C9_WitnessAccepted ==
    /\ client # NoClient
    /\ ctorArgs.cacert = PyStr(<<"c">>)
    /\ Len(transportCalls) >= 1
    /\ transportCalls[1].verify = PyStr(<<"c">>)

\* C10: construction with a negative max_retries fails and leaves no
\* client, so no call runs with a negative retry budget.
C10_NegativeRetriesRejected ==
    /\ (ctorArgs.called /\ ctorArgs.max_retries < 0) =>
          client = NoClient /\ ctorError # NoError
    /\ InCall => client._max_retries >= 0

\* the budget of transport calls of a call: max_retries + 1, none when that
\* is negative
CallBudget == IF client._max_retries + 1 > 0 THEN client._max_retries + 1 ELSE 0

IsReadTimeout(o) == o.kind = "raise" /\ o.exc.type = "ReadTimeout"

C12_BoundedRetryOnlyAfterTimeout ==
    InCall =>
        /\ Len(transportCalls) = Len(outcomes)
        /\ Len(transportCalls) <= CallBudget
        /\ (Len(transportCalls) >= 1 /\ Len(transportCalls) = CallBudget) => pc # "loop"
        /\ \A i \in 1 .. Len(outcomes) - 1 : IsReadTimeout(outcomes[i])
        /\ pc = "loop" =>
              /\ \A i \in 1 .. Len(outcomes) : IsReadTimeout(outcomes[i])
              /\ iter = Len(outcomes)
              /\ Len(logLines) = Len(outcomes) + (IF call.log THEN 1 ELSE 0)

C12_Witness ==
    /\ pc = "raised"
    /\ client._max_retries >= 2
    /\ Len(transportCalls) = 2
    /\ IsReadTimeout(outcomes[1])
    /\ outcomes[2].kind = "response"
    /\ outcomes[2].response.status_code = 404

\* C13: a call has raised the retries-exhausted TimeoutError only when it
\* made max_retries + 1 transport calls that all ended in a read-timeout,
\* the last of them on attempt max_retries; the cause of the error is the
\* read-timeout of that last attempt.
C13_ExhaustedOnlyAtTheEnd ==
    (pc = "raised" /\ error.type = "TimeoutError") =>
        /\ Len(transportCalls) = client._max_retries + 1
        /\ Len(outcomes) = client._max_retries + 1
        /\ \A i \in 1 .. Len(outcomes) : IsReadTimeout(outcomes[i])
        /\ attempt = client._max_retries
        /\ error.cause = LastOutcome.exc
        /\ error.max_retries = client._max_retries

C13_Witness ==
    /\ pc = "raised"
    /\ error.type = "TimeoutError"
    /\ error.cause = [type |-> "ReadTimeout"]
    /\ client._max_retries >= 1
    /\ attempt = client._max_retries

\* a request log line: the line request writes to the client's sink with the
\* verb, the url and the arguments
IsRequestLine(l) == l.level = "info" /\ l.sink # [name |-> "_LOGGER"]

\* C14: a finished call that logs has written one request log line per
\* transport call it made, and the line of each retrying attempt carries the
\* index of that attempt.
C14_RequestLinePerAttempt ==
    (pc \in {"returned", "raised"} /\ call.log /\ client._max_retries >= 0) =>
        LET lines == SelectSeq(logLines, IsRequestLine)
        IN  /\ Len(lines) = Len(transportCalls)
            /\ \A i \in 2 .. Len(lines) : lines[i].attemptShown /\ lines[i].attempt = i - 1

\* C15: the loop does not start from the `attempt` argument: the attempts of
\* a call are numbered from 0 whatever was passed, so the number of
\* transport calls, the bound and the point where the retries are exhausted
\* do not depend on it; the argument only shows in the request log line.
C15_AttemptArgumentIgnored ==
    InCall =>
        /\ iter = Len(transportCalls)
        /\ Len(transportCalls) >= 1 => attempt = Len(transportCalls) - 1
        /\ Len(transportCalls) <= CallBudget
        /\ (pc = "loop" /\ client._max_retries >= 0) =>
              Len(transportCalls) <= client._max_retries
        /\ (pc = "raised" /\ error.type = "TimeoutError") =>
              Len(transportCalls) = client._max_retries + 1
        /\ call.log =>
              /\ logLines[1].attempt = call.attempt
              /\ logLines[1].attemptShown = (call.attempt > 0)

C15_Witness ==
    /\ pc = "raised"
    /\ call.attempt = 1
    /\ client._max_retries >= 1
    /\ error.type = "TimeoutError"
    /\ Len(transportCalls) = client._max_retries + 1
    /\ call.log
    /\ logLines[1].attemptShown

\* C16 as claimed: a post whose transport call ended in a read-timeout is
\* not sent again, while get and delete are repeated on read-timeout as long
\* as retries remain.
C16_PostNotRetried ==
    /\ (InCall /\ call.method = "POST" /\ Len(outcomes) >= 1 /\ IsReadTimeout(outcomes[1])) =>
          Len(transportCalls) = 1
    /\ (InCall /\ call.method \in {"GET", "DELETE"} /\ Len(outcomes) >= 1
            /\ TimedOutUpTo(Len(outcomes)) /\ Len(outcomes) <= client._max_retries) =>
          pc = "loop"

\* C16 as amended: post, get and delete are repeated alike: after a
\* read-timeout on an attempt below max_retries the call, whatever its verb,
\* is in the loop with the next attempt due, and every transport call of the
\* call sends the same verb, url and arguments.
C16_AllVerbsRetried ==
    /\ (InCall /\ call.method \in {"GET", "POST", "DELETE"} /\ Len(outcomes) >= 1
            /\ TimedOutUpTo(Len(outcomes)) /\ Len(outcomes) <= client._max_retries) =>
          /\ pc = "loop"
          /\ iter = Len(outcomes)
          /\ iter < client._max_retries + 1
    /\ InCall =>
          \A i \in 1 .. Len(transportCalls) :
              /\ transportCalls[i].method = call.method
              /\ transportCalls[i].url = url
              /\ transportCalls[i].kwargs = kwargs

C16_Witness ==
    /\ InCall
    /\ call.method = "POST"
    /\ Len(transportCalls) = 2
    /\ IsReadTimeout(outcomes[1])
    /\ transportCalls[2].method = "POST"

\* C17: when a timeout is raised while the response of the last transport
\* call is processed, the call has raised an ExternalBrokerError with the
\* timeout message, the status code of that response and the configured
\* timeout, caused by that timeout; it was not retried: no transport call
\* follows, even when retries remain.
C17_ProcessingTimeoutIsFatal ==
    (InCall /\ Len(outcomes) >= 1 /\ LastOutcome.kind = "response"
            /\ LastOutcome.response.status_code < 400
            /\ LastOutcome.response.readFault # "none") =>
        /\ pc = "raised"
        /\ error.type = "ExternalBrokerError"
        /\ error.msg = "Timeout error"
        /\ error.status_code = LastOutcome.response.status_code
        /\ error.timeout = ctorArgs.timeout
        /\ error.cause = [type |-> LastOutcome.response.readFault]
        /\ Len(transportCalls) = Len(outcomes)
        /\ ret = NoValue

C17_Witness ==
    /\ pc = "raised"
    /\ error.type = "ExternalBrokerError"
    /\ error.msg = "Timeout error"
    /\ error.cause = [type |-> "ReadTimeout"]
    /\ error.timeout = 5
    /\ Len(transportCalls) = 1
    /\ client._max_retries >= 1

\* C18: when the last transport call returned a success status with a body
\* that does not parse, the call has raised the same ExternalBrokerError as
\* for an error status, with the status code of the response; no Result was
\* returned and no transport call follows.
C18_ParseFailureIsFatal ==
    (InCall /\ Len(outcomes) >= 1 /\ LastOutcome.kind = "response"
            /\ LastOutcome.response.status_code < 400
            /\ LastOutcome.response.readFault = "none"
            /\ LastOutcome.response.text \notin {"{\"status\":\"ok\"}", "[]", "null"}) =>
        /\ pc = "raised"
        /\ error.type = "ExternalBrokerError"
        /\ error.msg = "IbkrClient response error"
        /\ error.status_code = LastOutcome.response.status_code
        /\ error.cause = [type |-> "JSONDecodeError"]
        /\ ret = NoValue
        /\ Len(transportCalls) = Len(outcomes)

C18_Witness ==
    /\ pc = "raised"
    /\ error.type = "ExternalBrokerError"
    /\ error.msg = "IbkrClient response error"
    /\ error.status_code = 200
    /\ error.text = "not found"
    /\ Len(transportCalls) = 1
    /\ client._max_retries >= 1

\* C19: whatever get, post, delete, request and _process_response do, for
\* callers one after another and for concurrent callers in any interleaving,
\* base_url, cacert, _timeout and _max_retries of the client keep the values
\* construction gave them, and every transport call is made with the
\* configured cacert as verify and the configured _timeout as timeout.
C19_ConfigurationUnchanged ==
    client # NoClient =>
        /\ client.base_url = NormalizeUrl(ctorArgs.url.v)
        /\ client.cacert = ctorArgs.cacert
        /\ client._timeout = ctorArgs.timeout
        /\ client._max_retries = ctorArgs.max_retries
        /\ \A i \in 1 .. Len(transportCalls) :
              /\ transportCalls[i].verify = ctorArgs.cacert
              /\ transportCalls[i].timeout = ctorArgs.timeout
        /\ \A t \in Threads : \A i \in 1 .. Len(threads[t].calls) :
              /\ threads[t].calls[i].verify = ctorArgs.cacert
              /\ threads[t].calls[i].timeout = ctorArgs.timeout

\* two callers overlap on a client with a non-default timeout: one has failed
\* after a retry while the other is between two attempts
C19_Witness ==
    /\ ctorArgs.timeout = 5
    /\ threads[1].pc = "raised"
    /\ threads[1].method = "POST"
    /\ Len(threads[1].calls) = 2
    /\ threads[2].pc = "loop"
    /\ threads[2].method = "GET"
    /\ Len(threads[2].calls) = 1

\* C20: evaluating logger returns a sink, creating it when the client has
\* none; make_logger runs at most once on a client, so a sink that exists is
\* never replaced, and every access to logger and every line a request
\* writes to the client's sink uses that one sink.
C20_SinkStable ==
    client # NoClient =>
        /\ loggersMade <= 1
        /\ (client._logger # Unset) <=> (loggersMade = 1)
        /\ pc = "logger_returned" => (ret # Unset /\ ret = client._logger)
        /\ \A i \in 1 .. Len(logLines) :
              logLines[i].sink # [name |-> "_LOGGER"] =>
                  (logLines[i].sink # Unset /\ logLines[i].sink = client._logger)

\* the sink was created by the first access of a request, and a later access
\* of the same request used it
C20_Witness ==
    /\ ctorArgs = LazyArgs
    /\ loggersMade = 1
    /\ pc = "raised"
    /\ Len(logLines) = 2
    /\ logLines[1].sink = client._logger
    /\ logLines[2].sink = client._logger
    /\ logLines[2].level = "exception"

\* C20, a caller's access creating the sink
C20_WitnessAccessCreates ==
    /\ ctorArgs = LazyArgs
    /\ loggersMade = 1
    /\ pc = "logger_returned"
    /\ ret = [name |-> "RestClient"]

----------------------------------------------------------------------------
(* Properties of Result.copy *)

NoOverrides == copyOp.data = UNDEFINED /\ copyOp.request = UNDEFINED

\* C7: a copy without overrides of any Result, one whose data is None
\* included, succeeds; its data and request have the contents the original
\* had, in containers of their own, and no store through the copy changes
\* the contents of the original; copy(data=d) keeps the request of the
\* original and copy(request=q) keeps its data.
C7_CopyIndependent ==
    copyOp.done =>
        /\ NoOverrides => ~copyOp.raised
        /\ ~copyOp.raised =>
              LET src == results[copyOp.src]
                  dst == results[copyOp.dst]
              IN  /\ DeepValue(heap, src.data) = copyOp.snapshot.data
                  /\ DeepValue(heap, src.request) = copyOp.snapshot.request
                  /\ copyOp.data = UNDEFINED =>
                        /\ dst.data # src.data
                        /\ ~copyOp.mutated => DeepValue(heap, dst.data) = copyOp.snapshot.data
                  /\ copyOp.request = UNDEFINED =>
                        /\ dst.request # src.request
                        /\ ~copyOp.mutated =>
                              DeepValue(heap, dst.request) = copyOp.snapshot.request

====
